---- MODULE Spec2Model ----
(***************************************************************************)
(* Real-time messaging gateway (src/server/socket.ts), the Store methods   *)
(* it calls (src/server/storage.ts) and the client-side reconnection and   *)
(* outbound queue (src/client/src/lib/socket.ts).                          *)
(*                                                                         *)
(* The gateway is modelled under Spec: every `await` of a handler is a     *)
(* point where other handlers may run, so a handler is a task that takes   *)
(* one step per suspension point.  The client is modelled under            *)
(* ClientSpec: every callback (onopen, onclose, timer, exported function)  *)
(* is one atomic step of the browser's event loop; ClientTypingSpec adds   *)
(* the calls of sendTypingNotification, which use no queue and no timer.   *)
(*                                                                         *)
(* Store reads of rows that no operation of the specification at hand      *)
(* changes (users, conversations, and conversation_members except under    *)
(* MemberSpec) are taken at the step that uses them.  On the client a      *)
(* socket.send inside a try block either succeeds or throws, as the catch  *)
(* blocks provide for; the sends outside a try block (sendAuthMessage,     *)
(* sendTypingNotification) succeed.                                        *)
(***************************************************************************)
EXTENDS Integers, Sequences, FiniteSets, Bags, TLC

\* ---------------------------------------------------------------- bounds
NumConns == 2        \* server-side connections that may ever be accepted
NumUsers == 2        \* rows of the users table, ids 1..NumUsers
NumConvs == 2        \* rows of the conversations table, ids 1..NumConvs
MaxInbound == 3      \* inbound envelopes the gateway receives in one run
MaxTasks == 2        \* handlers suspended at an await at the same time
MaxMessages == 2     \* rows the messages table may grow to

Conns == 1..NumConns
Users == 1..NumUsers
Convs == 1..NumConvs

\* ------------------------------------------------------------- JS values
Undefined == -2      \* `let userId: number | undefined`
NaN == -1            \* Number("abc")
NoConn == 0          \* clients.get(k) === undefined
NoMsg == [id |-> 0, conversationId |-> 0, senderId |-> 0, content |-> "",
          isEdited |-> FALSE, reactions |-> <<>>]

\* payload.message of an 'authenticate' envelope: a number or some other text
AuthPayloads ==
    {[isNum |-> FALSE, val |-> 0]} \cup {[isNum |-> TRUE, val |-> n] : n \in 0..NumUsers}

\* Number(payload.message)
Number(p) == IF p.isNum THEN p.val ELSE NaN

\* JavaScript truthiness of a number | undefined   (`if (userId)`, `!userId`)
Truthy(n) == n \notin {Undefined, NaN, 0}

\* ---------------------------------------------------------------- state
VARIABLES
    \* gateway (src/server/socket.ts)
    wsState,     \* readyState of each server-side WebSocket
    userId,      \* the `userId` closure variable of each connection
    clients,     \* the registry Map<number, WebSocket>, as a set of <<key, value>>
    tasks,       \* bag of handlers suspended at an await
    sent,        \* envelopes passed to ws.send by the latest step, in order
    handling,    \* the handler that ran in the latest step: its task record as the
                 \* step found it (pc "receive"/"close" for the synchronous first part)
    received,    \* number of inbound envelopes so far
    delivered,   \* history, kept under OrderSpec only (elsewhere << >>): per
                 \* connection, the conversation events sent to it so far, each
                 \* with the connection and arrival number of its action
    \* Store (src/server/storage.ts)
    isOnline,    \* users.isOnline
    messages,    \* the messages table, row id = index
    members,     \* conversation_members: the member ids of each conversation
    \* client (src/client/src/lib/socket.ts)
    socket,              \* readyState of the module-level `socket`, or "null"
    orphans,             \* replaced sockets whose close event has not fired yet
    socketReconnectTimer,\* TRUE when a reconnect timeout is pending
    currentUserId,       \* 0 stands for null
    onopenUserId,        \* the `userId` argument the onopen closure of `socket` holds
    reconnectAttempts,
    messageQueue,        \* the outbound queue
    wire,                \* envelopes socket.send accepted on the current socket
    submitted,           \* number of actions submitted so far
    clientOp             \* the callback that ran in the latest client step, and
                         \* whether a socket.send inside a try block threw in it

gvars == <<wsState, userId, clients, tasks, sent, handling, received, delivered, isOnline,
           messages, members>>
cvars == <<socket, orphans, socketReconnectTimer, currentUserId, onopenUserId, reconnectAttempts,
           messageQueue, wire, submitted, clientOp>>
vars == <<gvars, cvars>>

\* --------------------------------------------------------- Store (static)
\* conversation_members when the server starts: conversation cv has members
\* cv and cv+1
InitMembers == [cv \in Convs |-> {u \in Users : u >= cv /\ u <= cv + 1}]

\* the rows of conversation_members for conversation cv
Members(cv) == members[cv]

\* storage.getUser(id) !== undefined
UserExists(u) == u \in Users

\* storage.getConversationById(id) !== undefined
ConversationExists(cv) == cv \in Convs

\* ids of the conversations storage.getConversationsForUser(u) returns
ConversationsForUser(u) == {cv \in Convs : u \in Members(cv)}

\* ------------------------------------------------------------ registry
\* Map.prototype.set, mutated: appends instead of replacing
MapSetAppend(m, k, v) == m \cup {<<k, v>>}

\* clients.set(k, v)
MapSet(m, k, v) == {p \in m : p[1] # k} \cup {<<k, v>>}

\* clients.delete(k)
MapDelete(m, k) == {p \in m : p[1] # k}

\* clients.get(k)
MapGet(m, k) == IF \E p \in m : p[1] = k THEN (CHOOSE p \in m : p[1] = k)[2] ELSE NoConn

\* ------------------------------------------------------------ envelopes
Envelope(to, member, type) ==
    [to |-> to, member |-> member, type |-> type, conversationId |-> 0,
     userId |-> 0, isOnline |-> FALSE, message |-> NoMsg]

\* ws.send(JSON.stringify({type: 'error', ...})), mutated: sent to every open connection
ErrorReplyAll(c) ==
    LET open == {d \in Conns : wsState[d] = "OPEN"}
        RECURSIVE Each(_)
        Each(S) == IF S = {} THEN <<>>
                   ELSE LET d == CHOOSE x \in S : \A y \in S : x <= y
                        IN <<Envelope(d, 0, "error")>> \o Each(S \ {d})
    IN Each(open)

\* ws.send(JSON.stringify({type: 'error', ...})) on the handler's own connection;
\* the ws library drops a send on a socket that is no longer open
ErrorReply(c) == IF wsState[c] = "OPEN" THEN <<Envelope(c, 0, "error")>> ELSE <<>>

\* members.forEach(member => { const client = clients.get(member.id);
\*     if (client && client.readyState === WebSocket.OPEN) client.send(env) })
\* forEach visits the members in row order (ascending id)
RECURSIVE FanOut(_, _)
FanOut(S, env) ==
    IF S = {} THEN <<>>
    ELSE LET u == CHOOSE x \in S : \A y \in S : x <= y
             client == MapGet(clients, u)
             one == IF client # NoConn /\ wsState[client] = "OPEN"
                    THEN <<[env EXCEPT !.to = client, !.member = u]>> ELSE <<>>
         IN one \o FanOut(S \ {u}, env)

\* --------------------------------------------------------------- tasks
Task(c, kind, pc) ==
    [conn |-> c, kind |-> kind, pc |-> pc, uid |-> 0, cid |-> 0, mid |-> 0,
     text |-> "", online |-> FALSE, who |-> 0, wasOnline |-> FALSE, found |-> FALSE,
     list |-> <<>>, msg |-> NoMsg, seq |-> 0, start |-> <<>>, fetched |-> FALSE,
     mem |-> {}, att |-> FALSE]

NoTask == Task(0, "none", "none")

\* the arrival number of the envelope being received, where the order of
\* deliveries is recorded
Arrival == IF DOMAIN delivered = {} THEN 0 ELSE received + 1

Spawn(t) == tasks (+) SetToBag({t})
Finish(t) == tasks (-) SetToBag({t})
Become(t, t2) == (tasks (-) SetToBag({t})) (+) SetToBag({t2})

\* u has a registered connection that is open
Reachable(u) == MapGet(clients, u) # NoConn /\ wsState[MapGet(clients, u)] = "OPEN"

\* the messages table when the server starts: one message of user 1 in conversation 1
InitMessages ==
    <<[id |-> 1, conversationId |-> 1, senderId |-> 1, content |-> "hi",
       isEdited |-> FALSE, reactions |-> <<>>]>>

Op(name, threw) == [name |-> name, threw |-> threw]

GatewayInit ==
    /\ wsState = [c \in Conns |-> "NONE"]
    /\ userId = [c \in Conns |-> Undefined]
    /\ clients = {}
    /\ tasks = EmptyBag
    /\ sent = <<>>
    /\ handling = NoTask
    /\ received = 0
    /\ isOnline = [u \in Users |-> FALSE]
    /\ messages = InitMessages
    /\ members = InitMembers

ClientInit ==
    /\ socket = "null"
    /\ orphans = 0
    /\ socketReconnectTimer = FALSE
    /\ currentUserId = 0
    /\ onopenUserId = 0
    /\ reconnectAttempts = 0
    /\ messageQueue = <<>>
    /\ wire = <<>>
    /\ submitted = 0
    /\ clientOp = Op("init", FALSE)

Init == GatewayInit /\ delivered = <<>> /\ ClientInit

\* ------------------------------------------------ gateway: connections
\* wss.on('connection'): the greeting is sent on the new connection
Connection(c) ==
    /\ wsState[c] = "NONE"
    /\ \A d \in Conns : d < c => wsState[d] # "NONE"
    /\ wsState' = [wsState EXCEPT ![c] = "OPEN"]
    /\ sent' = <<Envelope(c, 0, "connected")>>
    /\ handling' = Task(c, "connection", "done")
    /\ UNCHANGED <<userId, clients, tasks, received, isOnline, messages>>

CanReceive(c) ==
    /\ wsState[c] = "OPEN"
    /\ received < MaxInbound
    /\ BagCardinality(tasks) < MaxTasks

\* case 'authenticate', up to `await storage.updateUserOnlineStatus`
Authenticate(c, p) ==
    /\ CanReceive(c)
    /\ received' = received + 1
    /\ LET n == Number(p)
           t == [Task(c, "authenticate", "updateStatus") EXCEPT
                   !.uid = n, !.online = TRUE, !.wasOnline = Reachable(n),
                   !.seq = Arrival]
       IN /\ userId' = [userId EXCEPT ![c] = n]
          /\ handling' = [t EXCEPT !.pc = "receive"]
          /\ sent' = <<>>
          /\ IF n = NaN
             THEN UNCHANGED <<clients, tasks>>
             ELSE /\ clients' = MapSet(clients, n, c)
                  /\ tasks' = Spawn(t)
    /\ UNCHANGED <<wsState, isOnline, messages>>

\* ws.on('close'), up to `await storage.updateUserOnlineStatus`
Close(c) ==
    /\ wsState[c] = "OPEN"
    /\ BagCardinality(tasks) < MaxTasks
    /\ wsState' = [wsState EXCEPT ![c] = "CLOSED"]
    /\ LET t == [Task(c, "close", "updateStatus") EXCEPT
                   !.uid = userId[c], !.online = FALSE,
                   !.wasOnline = Reachable(userId[c])]
       IN /\ handling' = [t EXCEPT !.pc = "close"]
          /\ sent' = <<>>
          /\ IF Truthy(userId[c])
             THEN /\ clients' = MapDelete(clients, userId[c])
                  /\ tasks' = Spawn(t)
             ELSE UNCHANGED <<clients, tasks>>
    /\ UNCHANGED <<userId, received, isOnline, messages>>

\* storage.updateUserOnlineStatus completes; the handler resumes and calls
\* broadcastUserStatus(userId, isOnline), which suspends at its Store reads
UpdateStatus(t) ==
    /\ t.pc = "updateStatus"
    /\ isOnline' = [u \in Users |-> IF u = t.uid THEN t.online ELSE isOnline[u]]
    /\ tasks' = Become(t, [t EXCEPT !.pc = "broadcast", !.who = userId[t.conn]])
    /\ handling' = t
    /\ sent' = <<>>
    /\ UNCHANGED <<wsState, userId, clients, received, messages>>

\* the members broadcastUserStatus collects into uniqueMembers, minus the user
Interested(u) == UNION {Members(cv) : cv \in ConversationsForUser(u)} \ {u}

\* broadcastUserStatus after its Store reads: the send loop
BroadcastUserStatus(t) ==
    /\ t.pc = "broadcast"
    /\ tasks' = Finish(t)
    /\ handling' = t
    /\ sent' = IF UserExists(t.who)
               THEN FanOut(Interested(t.who),
                           [Envelope(0, 0, "user_status") EXCEPT
                               !.userId = t.who, !.isOnline = t.online])
               ELSE <<>>
    /\ UNCHANGED <<wsState, userId, clients, received, isOnline, messages>>

\* ------------------------------------------------- Store (messages table)
Contents == {"", "hi"}       \* payload.message / payload.content
Emojis == {"", "up"}         \* payload.emoji
ConvIds == 0..(NumConvs + 1) \* payload.conversationId; 0 stands for a missing field
MsgIds == 0..MaxMessages     \* payload.messageId; 0 stands for a missing field

\* db.select().from(messages).where(eq(messages.id, id)) found a row
MessageExists(id) == id \in 1..Len(messages)

\* the row storage.createMessage inserts
NewMessage(cv, u, content) ==
    [id |-> Len(messages) + 1, conversationId |-> cv, senderId |-> u,
     content |-> content, isEdited |-> FALSE, reactions |-> <<>>]

\* currentReactions.findIndex(r => r.userId === u && r.emoji === e) >= 0
HasReaction(rs, u, e) == \E i \in 1..Len(rs) : rs[i].userId = u /\ rs[i].emoji = e

\* addReactionToMessage's updatedReactions, mutated: always appends
AddReactionAlways(rs, u, e) == Append(rs, [emoji |-> e, userId |-> u])

\* addReactionToMessage: updatedReactions computed from currentReactions
AddReaction(rs, u, e) ==
    IF HasReaction(rs, u, e) THEN rs ELSE Append(rs, [emoji |-> e, userId |-> u])

\* removeReactionFromMessage: currentReactions.filter(r => !(r.userId === u && r.emoji === e))
RemoveReaction(rs, u, e) ==
    SelectSeq(rs, LAMBDA r : ~(r.userId = u /\ r.emoji = e))

\* ------------------------------------------------ gateway: case 'message'
\* the members getConversationById returns, mutated: the membership is the
\* one read when the server started
FetchedAtStart(t, cv) == InitMembers[cv]

\* conversation.members as storage.getConversationById returns it to handler
\* t: the rows read by the call's members query if other Store operations
\* ran between that query and the handler's loop (t.fetched), the current
\* rows otherwise
Fetched(t, cv) == IF t.fetched THEN t.mem ELSE Members(cv)

\* the members the 'message' fan-out visits, mutated: the sender is skipped
RecipientsButSender(ms, u) == ms \ {u}

\* conversation.members.forEach in case 'message' over the members ms the
\* Store returned: every member, the sender included
MessageRecipients(ms, u) == ms

\* case 'message', up to `await storage.createMessage`; att: payload.attachments
\* is a non-empty list
MessageEnvelope(c, cv, content, att) ==
    /\ CanReceive(c)
    /\ Len(messages) + Cardinality({t \in BagToSet(tasks) : t.pc = "createMessage"}) < MaxMessages
    /\ received' = received + 1
    /\ LET t == [Task(c, "message", "createMessage") EXCEPT
                   !.uid = userId[c], !.cid = cv, !.text = content, !.seq = Arrival,
                   !.start = members, !.att = att]
       IN /\ handling' = [t EXCEPT !.pc = "receive"]
          /\ IF ~Truthy(userId[c]) \/ cv = 0 \/ content = ""
             THEN /\ sent' = ErrorReply(c)
                  /\ UNCHANGED tasks
             ELSE /\ sent' = <<>>
                  /\ tasks' = Spawn(t)
    /\ UNCHANGED <<wsState, userId, clients, isOnline, messages>>

\* case 'message' for an envelope without attachments
Message(c, cv, content) == MessageEnvelope(c, cv, content, FALSE)

\* db.insert(messages).values(...): whether the row is stored.  storage.ts
\* checks nothing before the insert; the table definition (@shared/schema) is
\* not among the sources, so for a conversationId without a conversation row
\* the insert either succeeds or is rejected by the database and throws
InsertOutcomes(cv) == IF ConversationExists(cv) THEN {TRUE} ELSE BOOLEAN

\* storage.createMessage completes (insert, then the sender lookup, which throws
\* when the sender has no row; a throw is caught and only logged)
CreateMessage(t) ==
    /\ t.pc = "createMessage"
    /\ \E inserted \in InsertOutcomes(t.cid) :
          IF inserted
          THEN /\ messages' = Append(messages, NewMessage(t.cid, t.uid, t.text))
               /\ tasks' = IF UserExists(t.uid)
                           THEN Become(t, [t EXCEPT !.pc = "fanOut",
                                                    !.msg = NewMessage(t.cid, t.uid, t.text)])
                           ELSE Finish(t)
          ELSE /\ UNCHANGED messages
               /\ tasks' = Finish(t)
    /\ handling' = t
    /\ sent' = <<>>
    /\ UNCHANGED <<wsState, userId, clients, received, isOnline>>

\* the envelope type each handler fans out
EventType(kind) ==
    CASE kind = "message" -> "new_message"
      [] kind = "edit_message" -> "message_updated"
      [] kind = "add_reaction" -> "message_reacted"
      [] kind = "remove_reaction" -> "message_reaction_removed"
      [] OTHER -> "typing"

\* `if (conversation) conversation.members.forEach(...)` of the message,
\* edit_message, add_reaction and remove_reaction cases: the envelopes it sends
MessageFanOut(t) ==
    IF ConversationExists(t.msg.conversationId)
    THEN FanOut(IF t.kind = "message"
                THEN MessageRecipients(Fetched(t, t.msg.conversationId), t.uid)
                ELSE Fetched(t, t.msg.conversationId),
                [Envelope(0, 0, EventType(t.kind)) EXCEPT
                    !.conversationId = t.msg.conversationId,
                    !.message = t.msg])
    ELSE <<>>

\* storage.getConversationById completes; the forEach send loop of the
\* message, edit_message, add_reaction and remove_reaction cases
FanOutMessage(t) ==
    /\ t.pc = "fanOut"
    /\ tasks' = Finish(t)
    /\ handling' = t
    /\ sent' = MessageFanOut(t)
    /\ UNCHANGED <<wsState, userId, clients, received, isOnline, messages>>

\* ------------------------------------------------- gateway: case 'typing'
\* case 'typing', up to `await storage.getConversationById`
Typing(c, cv) ==
    /\ CanReceive(c)
    /\ received' = received + 1
    /\ LET t == [Task(c, "typing", "typing") EXCEPT
                   !.uid = userId[c], !.cid = cv, !.seq = Arrival,
                   !.start = members]
       IN /\ handling' = [t EXCEPT !.pc = "receive"]
          /\ sent' = <<>>
          /\ tasks' = IF ~Truthy(userId[c]) \/ cv = 0 THEN tasks ELSE Spawn(t)
    /\ UNCHANGED <<wsState, userId, clients, isOnline, messages>>

\* `if (typingConversation) typingConversation.members.forEach(...)`: the
\* envelopes it sends; `userId` is read from the closure when the loop runs
TypingFanOut(t) ==
    IF ConversationExists(t.cid)
    THEN FanOut(Fetched(t, t.cid) \ {userId[t.conn]},
                [Envelope(0, 0, "typing") EXCEPT
                    !.conversationId = t.cid, !.userId = userId[t.conn]])
    ELSE <<>>

\* storage.getConversationById completes; the typing send loop
FanOutTyping(t) ==
    /\ t.pc = "typing"
    /\ tasks' = Finish(t)
    /\ handling' = t
    /\ sent' = TypingFanOut(t)
    /\ UNCHANGED <<wsState, userId, clients, received, isOnline, messages>>

\* ------------------------------------------- gateway: case 'edit_message'
\* case 'edit_message', up to `await storage.updateMessage`
EditMessage(c, id, content) ==
    /\ CanReceive(c)
    /\ received' = received + 1
    /\ LET t == [Task(c, "edit_message", "updateMessage") EXCEPT
                   !.uid = userId[c], !.mid = id, !.text = content, !.seq = Arrival,
                   !.start = members]
       IN /\ handling' = [t EXCEPT !.pc = "receive"]
          /\ IF ~Truthy(userId[c]) \/ id = 0 \/ content = ""
             THEN /\ sent' = ErrorReply(c)
                  /\ UNCHANGED tasks
             ELSE /\ sent' = <<>>
                  /\ tasks' = Spawn(t)
    /\ UNCHANGED <<wsState, userId, clients, isOnline, messages>>

\* storage.updateMessage completes; `if (!updatedMessage)` replies with an error
UpdateMessage(t) ==
    /\ t.pc = "updateMessage"
    /\ handling' = t
    /\ IF MessageExists(t.mid)
       THEN LET row == [messages[t.mid] EXCEPT !.content = t.text, !.isEdited = TRUE]
            IN /\ messages' = [messages EXCEPT ![t.mid] = row]
               /\ IF UserExists(row.senderId)
                  THEN /\ tasks' = Become(t, [t EXCEPT !.pc = "fanOut", !.msg = row])
                       /\ sent' = <<>>
                  ELSE /\ tasks' = Finish(t)
                       /\ sent' = ErrorReply(t.conn)
       ELSE /\ tasks' = Finish(t)
            /\ sent' = ErrorReply(t.conn)
            /\ UNCHANGED messages
    /\ UNCHANGED <<wsState, userId, clients, received, isOnline>>

\* ---------------------------- gateway: case 'add_reaction' / 'remove_reaction'
\* case 'add_reaction' and case 'remove_reaction', up to the Store call's select
Reaction(c, kind, id, emoji) ==
    /\ CanReceive(c)
    /\ received' = received + 1
    /\ LET t == [Task(c, kind, "selectMessage") EXCEPT
                   !.uid = userId[c], !.mid = id, !.text = emoji, !.seq = Arrival,
                   !.start = members]
       IN /\ handling' = [t EXCEPT !.pc = "receive"]
          /\ IF ~Truthy(userId[c]) \/ id = 0 \/ emoji = ""
             THEN /\ sent' = ErrorReply(c)
                  /\ UNCHANGED tasks
             ELSE /\ sent' = <<>>
                  /\ tasks' = Spawn(t)
    /\ UNCHANGED <<wsState, userId, clients, isOnline, messages>>

\* addReactionToMessage / removeReactionFromMessage: the select completes and
\* updatedReactions is computed; without a row the method returns undefined
\* and the handler replies with an error
SelectMessage(t) ==
    /\ t.pc = "selectMessage"
    /\ handling' = t
    /\ IF MessageExists(t.mid)
       THEN LET cur == messages[t.mid].reactions
                upd == IF t.kind = "add_reaction"
                       THEN AddReaction(cur, t.uid, t.text)
                       ELSE RemoveReaction(cur, t.uid, t.text)
            IN /\ tasks' = Become(t, [t EXCEPT !.pc = "updateReactions", !.list = upd,
                                              !.found = HasReaction(cur, t.uid, t.text)])
               /\ sent' = <<>>
       ELSE /\ tasks' = Finish(t)
            /\ sent' = ErrorReply(t.conn)
    /\ UNCHANGED <<wsState, userId, clients, received, isOnline, messages>>

\* the update of messages.reactions completes, then the sender lookup
UpdateReactions(t) ==
    /\ t.pc = "updateReactions"
    /\ handling' = t
    /\ IF MessageExists(t.mid)
       THEN LET row == [messages[t.mid] EXCEPT !.reactions = t.list]
            IN /\ messages' = [messages EXCEPT ![t.mid] = row]
               /\ IF UserExists(row.senderId)
                  THEN /\ tasks' = Become(t, [t EXCEPT !.pc = "fanOut", !.msg = row])
                       /\ sent' = <<>>
                  ELSE /\ tasks' = Finish(t)
                       /\ sent' = ErrorReply(t.conn)
       ELSE /\ tasks' = Finish(t)
            /\ sent' = ErrorReply(t.conn)
            /\ UNCHANGED messages
    /\ UNCHANGED <<wsState, userId, clients, received, isOnline>>

TaskStep(t) ==
    \/ UpdateStatus(t)
    \/ BroadcastUserStatus(t)
    \/ CreateMessage(t)
    \/ FanOutMessage(t)
    \/ FanOutTyping(t)
    \/ UpdateMessage(t)
    \/ SelectMessage(t)
    \/ UpdateReactions(t)

GatewayNext ==
    \/ \E c \in Conns : Connection(c)
    \/ \E c \in Conns, p \in AuthPayloads : Authenticate(c, p)
    \/ \E c \in Conns : Close(c)
    \/ \E c \in Conns, cv \in ConvIds, content \in Contents : Message(c, cv, content)
    \/ \E c \in Conns, cv \in ConvIds : Typing(c, cv)
    \/ \E c \in Conns, id \in MsgIds, content \in Contents : EditMessage(c, id, content)
    \/ \E c \in Conns, id \in MsgIds, e \in Emojis :
          Reaction(c, "add_reaction", id, e) \/ Reaction(c, "remove_reaction", id, e)
    \/ \E t \in BagToSet(tasks) : TaskStep(t)

Next == GatewayNext /\ UNCHANGED <<cvars, delivered, members>>

Spec == Init /\ [][Next]_vars

\* ----------------------------------------------------- unparseable frames
\* ws.on('message') for a frame that is not JSON, mutated: the catch block
\* replies with an error envelope
MalformedReplies(c) ==
    /\ CanReceive(c)
    /\ received' = received + 1
    /\ handling' = Task(c, "malformed", "receive")
    /\ sent' = ErrorReply(c)
    /\ UNCHANGED <<wsState, userId, clients, tasks, isOnline, messages>>

\* ws.on('message') for a frame that is not JSON: JSON.parse throws, the catch
\* block logs the error
Malformed(c) ==
    /\ CanReceive(c)
    /\ received' = received + 1
    /\ handling' = Task(c, "malformed", "receive")
    /\ sent' = <<>>
    /\ UNCHANGED <<wsState, userId, clients, tasks, isOnline, messages>>

\* the gateway receiving unparseable frames as well
FrameNext ==
    \/ GatewayNext
    \/ \E c \in Conns : Malformed(c)

FrameSpec == Init /\ [][FrameNext /\ UNCHANGED <<cvars, delivered, members>>]_vars

\* ------------------------------------------------------------ attachments
\* the gateway receiving 'message' envelopes with attachments as well
AttachNext ==
    \/ GatewayNext
    \/ \E c \in Conns, cv \in ConvIds, content \in Contents :
          MessageEnvelope(c, cv, content, TRUE)

AttachSpec == Init /\ [][AttachNext /\ UNCHANGED <<cvars, delivered, members>>]_vars

\* ------------------------------------------------------------- reactions
\* the gateway some time after start: every connection is open and, where a
\* user of the same number exists, authenticated as that user, with its
\* authenticate handler completed
ReactionInit ==
    /\ wsState = [c \in Conns |-> "OPEN"]
    /\ userId = [c \in Conns |-> IF c \in Users THEN c ELSE Undefined]
    /\ clients = {<<c, c>> : c \in Conns \cap Users}
    /\ tasks = EmptyBag
    /\ sent = <<>>
    /\ handling = NoTask
    /\ received = 0
    /\ isOnline = [u \in Users |-> u \in Conns]
    /\ messages = InitMessages
    /\ members = InitMembers
    /\ delivered = <<>>
    /\ ClientInit

\* the envelopes such connections send (well-formed ones) and their handlers
ReactionNext ==
    \/ \E c \in Conns, u \in Users : Authenticate(c, [isNum |-> TRUE, val |-> u])
    \/ \E c \in Conns : Close(c)
    \/ \E c \in Conns, cv \in Convs : Message(c, cv, "hi")
    \/ \E c \in Conns, cv \in Convs : Typing(c, cv)
    \/ \E c \in Conns, id \in 1..MaxMessages : EditMessage(c, id, "hi")
    \/ \E c \in Conns, id \in 1..MaxMessages :
          Reaction(c, "add_reaction", id, "up") \/ Reaction(c, "remove_reaction", id, "up")
    \/ \E t \in BagToSet(tasks) : TaskStep(t)

ReactionSpec == ReactionInit /\ [][ReactionNext /\ UNCHANGED <<cvars, delivered, members>>]_vars

\* ------------------------------------------------------------- failures
\* A Store call awaited inside the try block of ws.on('message') rejects: the
\* catch block logs the error and the handler ends
StoreThrows(t) ==
    /\ t.kind \notin {"close"} /\ t.pc # "broadcast"
    /\ tasks' = Finish(t)
    /\ handling' = [t EXCEPT !.pc = "threw"]
    /\ sent' = <<>>
    /\ UNCHANGED <<wsState, userId, clients, received, isOnline, messages>>

\* A Store call rejects where no try block encloses it: the await of
\* ws.on('close'), or the reads of broadcastUserStatus, whose promise nobody
\* awaits.  The rejection is unhandled; depending on the runtime's
\* unhandled-rejection mode the process only warns, or it terminates
UnhandledRejection(t, terminates) ==
    /\ t.kind = "close" \/ t.pc = "broadcast"
    /\ handling' = [t EXCEPT !.pc = "threw"]
    /\ sent' = <<>>
    /\ IF terminates
       THEN /\ wsState' = [c \in Conns |-> "DOWN"]
            /\ tasks' = EmptyBag
       ELSE /\ tasks' = Finish(t)
            /\ UNCHANGED wsState
    /\ UNCHANGED <<userId, clients, received, isOnline, messages>>

\* client.send raises at the k-th send of a fan-out loop: forEach is left, the
\* catch block of ws.on('message') logs the error and the handler ends
SendRaises(t, k) ==
    /\ t.pc \in {"fanOut", "typing"}
    /\ LET all == IF t.pc = "typing" THEN TypingFanOut(t) ELSE MessageFanOut(t)
       IN /\ k \in DOMAIN all
          /\ sent' = SubSeq(all, 1, k - 1)
          /\ handling' = [t EXCEPT !.pc = "raised", !.who = all[k].member]
    /\ tasks' = Finish(t)
    /\ UNCHANGED <<wsState, userId, clients, received, isOnline, messages>>

\* the gateway with failing Store calls and raising sends
FaultNext ==
    \/ GatewayNext
    \/ \E t \in BagToSet(tasks) : StoreThrows(t)
    \/ \E t \in BagToSet(tasks), terminates \in BOOLEAN : UnhandledRejection(t, terminates)
    \/ \E t \in BagToSet(tasks), k \in 1..NumUsers : SendRaises(t, k)

FaultSpec == Init /\ [][FaultNext /\ UNCHANGED <<cvars, delivered, members>>]_vars

\* ------------------------------------------------- changing membership
\* the memberships deleted in a run: user 2 leaves conversation 1
Leaving == {<<1, 2>>}

\* storage.removeUserFromConversation(cv, u), called by the leave-conversation
\* route for a member: the delete of the conversation_members row completes
RemoveUserFromConversation(cv, u) ==
    /\ <<cv, u>> \in Leaving
    /\ ConversationExists(cv)
    /\ u \in members[cv]
    /\ members' = [members EXCEPT ![cv] = @ \ {u}]
    /\ sent' = <<>>
    /\ handling' = NoTask
    /\ UNCHANGED <<wsState, userId, clients, tasks, received, isOnline, messages>>

\* the members query inside storage.getConversationById completes for handler
\* t; the call goes on with further queries before it returns to the handler.
\* (Once no member of the conversation can leave any more, the query returns
\* what the handler's loop would read, and the step is not told apart.)
FetchMembers(t) ==
    /\ t.pc \in {"fanOut", "typing"}
    /\ ~t.fetched
    /\ LET cv == IF t.pc = "typing" THEN t.cid ELSE t.msg.conversationId
       IN /\ ConversationExists(cv)
          /\ \E p \in Leaving : p[1] = cv /\ p[2] \in members[cv]
          /\ tasks' = Become(t, [t EXCEPT !.fetched = TRUE, !.mem = members[cv]])
    /\ sent' = <<>>
    /\ handling' = [t EXCEPT !.pc = "fetch"]
    /\ UNCHANGED <<wsState, userId, clients, received, isOnline, messages, members>>

\* the gateway receiving well-formed envelopes while members leave conversations
MemberNext ==
    \/ /\ \/ \E c \in Conns : Connection(c)
          \/ \E c \in Conns, u \in Users : Authenticate(c, [isNum |-> TRUE, val |-> u])
          \/ \E c \in Conns : Close(c)
          \/ \E c \in Conns, cv \in Convs : Message(c, cv, "hi")
          \/ \E c \in Conns, cv \in Convs : Typing(c, cv)
          \/ \E c \in Conns, id \in 1..MaxMessages : EditMessage(c, id, "hi")
          \/ \E c \in Conns, id \in 1..MaxMessages :
                Reaction(c, "add_reaction", id, "up") \/ Reaction(c, "remove_reaction", id, "up")
          \/ \E t \in BagToSet(tasks) : TaskStep(t)
       /\ UNCHANGED members
    \/ \E t \in BagToSet(tasks) : FetchMembers(t)
    \/ \E cv \in Convs, u \in Users : RemoveUserFromConversation(cv, u)

MemberSpec == Init /\ [][MemberNext /\ UNCHANGED <<cvars, delivered>>]_vars

\* ------------------------------------------------ the order of deliveries
\* the envelope types that carry an event of a conversation
ConversationEvents ==
    {"new_message", "message_updated", "message_reacted", "message_reaction_removed",
     "typing"}

\* the delivery record after the envelopes s of a step of handler h: each
\* conversation event is appended to the record of the connection it was sent on
RECURSIVE Deliver(_, _, _)
Deliver(log, h, s) ==
    IF s = <<>> THEN log
    ELSE LET e == Head(s)
             entry == [conn |-> h.conn, seq |-> h.seq, type |-> e.type,
                       conversationId |-> e.conversationId, id |-> e.message.id]
         IN Deliver(IF e.type \in ConversationEvents
                    THEN [log EXCEPT ![e.to] = Append(@, entry)] ELSE log,
                    h, Tail(s))

\* the gateway, with every delivery of a conversation event recorded
OrderNext ==
    /\ GatewayNext
    /\ delivered' = Deliver(delivered, handling', sent')
    /\ UNCHANGED <<cvars, members>>

\* Init with the delivery record switched on
OrderInit == GatewayInit /\ delivered = [c \in Conns |-> <<>>] /\ ClientInit

OrderSpec == OrderInit /\ [][OrderNext]_vars

\* ============================================================ gateway claims
\* indices of the envelopes of the latest step that satisfy P
SentWhere(P(_)) == {i \in DOMAIN sent : P(sent[i])}

\* the synchronous part of an 'authenticate' envelope with a numeric id just ran
JustAuthenticated ==
    handling.kind = "authenticate" /\ handling.pc = "receive" /\ handling.uid # NaN

\* C1: the registry holds at most one connection per user-id; right after a
\* connection authenticates as u the registry holds that connection, and only
\* it, for u; every envelope a fan-out addresses to member u is sent to the
\* connection the registry holds for u.
C1_RegistryUniqueness ==
    /\ \A p \in clients, q \in clients : p[1] = q[1] => p = q
    /\ JustAuthenticated =>
          {p \in clients : p[1] = handling.uid} = {<<handling.uid, handling.conn>>}
    /\ \A i \in DOMAIN sent :
          sent[i].member # 0 =>
             /\ <<sent[i].member, sent[i].to>> \in clients
             /\ \A d \in Conns : d # sent[i].to => <<sent[i].member, d>> \notin clients

\* C1 witness: two open connections authenticated as the same user, the
\* registry holds the later one, and a fan-out to that user went to it.
C1_Witness ==
    \E c1 \in Conns, c2 \in Conns :
        /\ c1 # c2
        /\ wsState[c1] = "OPEN" /\ wsState[c2] = "OPEN"
        /\ Truthy(userId[c1]) /\ userId[c1] = userId[c2]
        /\ MapGet(clients, userId[c2]) = c2
        /\ \E i \in DOMAIN sent : sent[i].member = userId[c2] /\ sent[i].to = c2

\* C2: when a connection closes, registry entries that map a user-id to some
\* other connection are left in place.
C2_IdentityGuardedUnregister ==
    [][\A c \in Conns :
          (wsState[c] = "OPEN" /\ wsState'[c] = "CLOSED") =>
             \A p \in clients : p[2] # c => p \in clients']_vars

\* the send loop of a 'message' envelope just ran for an existing conversation
\* whose members, the sender among them, are all registered with open connections
MessageFannedOut ==
    /\ handling.kind = "message" /\ handling.pc = "fanOut"
    /\ ConversationExists(handling.cid)
    /\ handling.uid \in Members(handling.cid)
    /\ \A u \in Members(handling.cid) : Reachable(u)

\* C3 as stated: every other member gets exactly one new_message and the
\* sender's own connection gets none.
C3_NoEchoToSender ==
    MessageFannedOut =>
       /\ \A u \in Members(handling.cid) \ {handling.uid} :
             Cardinality(SentWhere(LAMBDA e : e.member = u)) = 1
       /\ \A i \in DOMAIN sent : sent[i].to # handling.conn

\* C3 amended: exactly one new_message, carrying the persisted message, goes to
\* the registered connection of every member, the sender included.
C3_FanOutToAllMembers ==
    MessageFannedOut =>
       /\ \A u \in Members(handling.cid) :
             Cardinality(SentWhere(LAMBDA e : e.member = u /\ e.to = MapGet(clients, u))) = 1
       /\ Len(sent) = Cardinality(Members(handling.cid))
       /\ \A i \in DOMAIN sent :
             /\ sent[i].type = "new_message"
             /\ sent[i].conversationId = handling.cid
             /\ sent[i].message = handling.msg
       /\ MessageExists(handling.msg.id)
       /\ messages[handling.msg.id].senderId = handling.uid
       /\ messages[handling.msg.id].conversationId = handling.cid

\* C3 witness: a fan-out to a conversation of at least two reachable members in
\* which the sender's connection and another member's connection both got the message.
C3_Witness ==
    /\ MessageFannedOut
    /\ MapGet(clients, handling.uid) = handling.conn
    /\ \E i \in DOMAIN sent : sent[i].to = handling.conn
    /\ \E i \in DOMAIN sent : sent[i].to # handling.conn

\* number of entries of a reaction list for (u, e)
ReactionCount(rs, u, e) ==
    Cardinality({i \in DOMAIN rs : rs[i].userId = u /\ rs[i].emoji = e})

\* C4: an add_reaction whose (userId, emoji) is already on the message writes
\* back the list it read, unchanged; after any add_reaction write the message
\* holds exactly one entry for that (userId, emoji); and the call is not
\* answered with an error envelope.
C4_IdempotentReactions ==
    (handling.kind = "add_reaction" /\ MessageExists(handling.mid)) =>
       /\ (handling.pc = "selectMessage"
            /\ HasReaction(messages[handling.mid].reactions, handling.uid, handling.text)) =>
             BagIn([handling EXCEPT !.pc = "updateReactions", !.found = TRUE,
                                    !.list = messages[handling.mid].reactions], tasks)
       /\ handling.pc = "updateReactions" =>
             /\ ReactionCount(messages[handling.mid].reactions, handling.uid, handling.text) = 1
             /\ handling.found => messages[handling.mid].reactions = handling.list
       /\ handling.pc \in {"selectMessage", "updateReactions", "fanOut"} =>
             SentWhere(LAMBDA e : e.type = "error") = {}

\* C4 witness: the write of a second add_reaction for a (userId, emoji) that
\* the message already carried.
C4_Witness ==
    /\ handling.kind = "add_reaction" /\ handling.pc = "updateReactions"
    /\ handling.found
    /\ MessageExists(handling.mid)
    /\ ReactionCount(messages[handling.mid].reactions, handling.uid, handling.text) = 1

\* C6: a peer connection receives user_status{u, isOnline:true} only from an
\* authenticate of u that found u offline, and user_status{u, isOnline:false}
\* only from a close that found u online.
C6_PresenceTransitionsExact ==
    \A i \in DOMAIN sent :
        (/\ sent[i].type = "user_status"
         /\ sent[i].userId = handling.uid
         /\ sent[i].to # handling.conn
         /\ userId[sent[i].to] = sent[i].member) =>
           (sent[i].isOnline <=> ~handling.wasOnline)

\* C7: an error envelope goes to the connection whose envelope is being
\* handled and to no other, a step sends at most one, and the step that sends
\* it ends the handler.
C7_NoCrossUserErrors ==
    [][(SentWhere(LAMBDA e : e.type = "error") # {})' =>
          /\ \A i \in DOMAIN sent' : sent'[i].type = "error" => sent'[i].to = handling'.conn
          /\ Cardinality(SentWhere(LAMBDA e : e.type = "error"))' = 1
          /\ Len(sent') = 1
          /\ IF handling'.pc = "receive"
             THEN tasks' = tasks
             ELSE tasks' = tasks (-) SetToBag({handling'})]_vars

\* C7 witness: an error raised after a Store call was answered on the
\* originating connection while another authenticated connection was open.
C7_Witness ==
    /\ Len(sent) = 1 /\ sent[1].type = "error" /\ sent[1].to = handling.conn
    /\ handling.pc # "receive"
    /\ \E d \in Conns : d # handling.conn /\ wsState[d] = "OPEN" /\ Truthy(userId[d])

\* the envelope types whose handlers need a user-id
ActionKinds == {"message", "typing", "edit_message", "add_reaction", "remove_reaction"}

\* C12: an action envelope received on a connection that never authenticated
\* is answered with exactly one error envelope on that connection and with
\* nothing else, and leaves no handler behind that could write to the Store
\* or send an event.
C12_UnauthenticatedRejected ==
    /\ (/\ handling.pc = "receive"
        /\ handling.kind \in ActionKinds
        /\ handling.uid = Undefined) =>
          /\ Len(sent) = 1
          /\ sent[1].type = "error"
          /\ sent[1].to = handling.conn
    /\ \A t \in BagToSet(tasks) : t.kind \in ActionKinds => Truthy(t.uid)

\* the handler that ran in the step found a domain validation failure: a missing
\* or empty field, a conversation without a row, or a message without a row
ValidationFails(h) ==
    \/ /\ h.pc = "receive" /\ Truthy(h.uid)
       /\ \/ h.kind = "message" /\ (h.cid = 0 \/ h.text = "")
          \/ h.kind \in {"edit_message", "add_reaction", "remove_reaction"}
                /\ (h.mid = 0 \/ h.text = "")
    \/ h.kind = "message" /\ h.pc = "createMessage" /\ ~ConversationExists(h.cid)
    \/ h.pc \in {"updateMessage", "selectMessage"} /\ ~MessageExists(h.mid)

\* C13: the step in which a handler meets a validation failure leaves the
\* messages table as it was and, the originating connection being open, sends
\* one error envelope on it; no message row names a conversation that has no row.
C13_ValidateBeforePersist ==
    [][/\ ValidationFails(handling') =>
             /\ messages' = messages
             /\ wsState[handling'.conn] = "OPEN" =>
                   (Len(sent') = 1 /\ sent'[1].type = "error"
                      /\ sent'[1].to = handling'.conn)
       /\ \A i \in DOMAIN messages' : ConversationExists(messages'[i].conversationId)]_vars

\* the handlers of inbound envelopes of connection c that are suspended at an await
InProgress(c) == {t \in BagToSet(tasks) : t.conn = c /\ t.kind # "close"}

\* C15: at most one envelope handler of a connection is in progress, and no
\* envelope of a connection is received while an earlier one of the same
\* connection is still being handled.
C15_SerialPerConnection ==
    /\ \A c \in Conns :
          /\ Cardinality(InProgress(c)) <= 1
          /\ \A t \in InProgress(c) : CopiesIn(t, tasks) = 1
    /\ handling.pc = "receive" =>
          \A t \in InProgress(handling.conn) :
              [t EXCEPT !.pc = "receive"] = handling

\* C16: on every connection the events of one conversation that come from
\* actions of one sending connection are delivered in the order in which those
\* actions arrived, and new_message events are delivered in the order in which
\* their messages were persisted (ascending message id).
C16_DeliveryOrder ==
    \A r \in Conns : \A i, j \in DOMAIN delivered[r] :
        LET a == delivered[r][i]
            b == delivered[r][j]
        IN i < j =>
             /\ (a.conn = b.conn /\ a.conversationId = b.conversationId) => a.seq <= b.seq
             /\ (a.type = "new_message" /\ b.type = "new_message") => a.id <= b.id

\* C18: the handler of a 'typing' envelope that user u sent for an existing
\* conversation sends typing{conversationId, userId: u} on the registered open
\* connection of every member but u and on no other connection, never on the
\* connection the envelope came from, and writes nothing to the Store.
C18_TypingFanOut ==
    [][(handling'.kind = "typing" /\ handling'.pc \in {"receive", "typing"}) =>
          /\ messages' = messages /\ isOnline' = isOnline
          /\ (handling'.pc = "typing" /\ ConversationExists(handling'.cid)) =>
                LET u == handling'.uid
                    others == {m \in Members(handling'.cid) \ {u} : Reachable(m)}
                IN /\ {sent'[i].to : i \in DOMAIN sent'} = {MapGet(clients, m) : m \in others}
                   /\ \A i \in DOMAIN sent' :
                         /\ sent'[i].type = "typing"
                         /\ sent'[i].conversationId = handling'.cid
                         /\ sent'[i].userId = u
                         /\ sent'[i].to # handling'.conn]_vars

\* C14: a step in which a Store call threw sends one error envelope on the
\* originating connection if that connection is open, and nothing else; the
\* gateway is never brought down.
C14_StoreFailureContained ==
    /\ handling.pc = "threw" =>
          sent = (IF wsState[handling.conn] = "OPEN"
                  THEN <<Envelope(handling.conn, 0, "error")>> ELSE <<>>)
    /\ \A c \in Conns : wsState[c] # "DOWN"

\* the envelopes the fan-out of the handler in `handling` was to send
Intended == IF handling.kind = "typing" THEN TypingFanOut(handling) ELSE MessageFanOut(handling)

\* C17: when the send to one recipient of a fan-out raises (each connection
\* being registered for one user), every other recipient's envelope is still
\* sent, none is sent to the failed recipient, and the originator gets no
\* error envelope.
C17_IndependentDelivery ==
    (/\ handling.pc = "raised"
     /\ \A p, q \in clients : p[2] = q[2] => p = q) =>
       /\ \A i \in DOMAIN Intended :
             Intended[i].member # handling.who =>
                \E j \in DOMAIN sent : sent[j] = Intended[i]
       /\ \A j \in DOMAIN sent : sent[j].member # handling.who /\ sent[j].type # "error"

\* the conversation whose members the fan-out of the handler in `handling` visits
FanOutConversation ==
    IF handling.kind = "typing" THEN handling.cid ELSE handling.msg.conversationId

\* C20: every envelope of a conversation fan-out goes to the registered
\* connection of a user who was a member in the membership read made for that
\* handler, and who was a member when the handler's envelope arrived: a user
\* who had left before gets nothing.
C20_RecipientsAreCurrentMembers ==
    handling.pc \in {"fanOut", "typing"} =>
       /\ handling.fetched => handling.mem \subseteq handling.start[FanOutConversation]
       /\ \A i \in DOMAIN sent :
             /\ sent[i].type = EventType(handling.kind)
             /\ sent[i].conversationId = FanOutConversation
             /\ sent[i].member \in (IF handling.fetched THEN handling.mem
                                    ELSE members[FanOutConversation])
             /\ sent[i].member \in handling.start[FanOutConversation]
             /\ sent[i].to = MapGet(clients, sent[i].member)

\* C20 witness: user 2, registered on an open connection, had left conversation
\* 1 before user 1's 'message' for it arrived; the new_message went to user 1 only.
C20_Witness ==
    /\ handling.kind = "message" /\ handling.pc = "fanOut"
    /\ handling.msg.conversationId = 1
    /\ 2 \notin handling.start[1]
    /\ Reachable(2)
    /\ MapGet(clients, 2) # MapGet(clients, 1)
    /\ Len(sent) = 1 /\ sent[1].member = 1

\* the envelope received in the step lacks a field its type requires (the
\* sender being authenticated where the type needs a user-id)
MissingField(h) ==
    /\ h.pc = "receive"
    /\ \/ h.kind = "authenticate" /\ h.uid = NaN
       \/ h.kind = "typing" /\ Truthy(h.uid) /\ h.cid = 0
       \/ h.kind = "message" /\ Truthy(h.uid) /\ (h.cid = 0 \/ h.text = "")
       \/ h.kind \in {"edit_message", "add_reaction", "remove_reaction"}
             /\ Truthy(h.uid) /\ (h.mid = 0 \/ h.text = "")

\* the step left the registry, the Store and the set of suspended handlers alone
NothingChanged ==
    /\ clients' = clients
    /\ isOnline' = isOnline /\ messages' = messages /\ members' = members
    /\ tasks' = tasks

\* C21 as stated: a frame that is not JSON, or an envelope that lacks a
\* required field, gets no reply on any connection and changes neither the
\* registry nor the Store.
C21_MalformedDroppedSilently ==
    [][(handling'.kind = "malformed" \/ MissingField(handling')) =>
          (sent' = <<>> /\ NothingChanged)]_vars

\* C21 amended: a frame that is not JSON, an authenticate without a numeric id
\* and a typing without conversationId get no reply; a message, edit_message,
\* add_reaction or remove_reaction that lacks a required field gets exactly one
\* error envelope, on the connection it came from; in every case the registry
\* and the Store are unchanged and no handler is left suspended.
C21_MalformedNoEffect ==
    [][(handling'.kind = "malformed" \/ MissingField(handling')) =>
          /\ NothingChanged
          /\ IF handling'.kind \in {"malformed", "authenticate", "typing"}
             THEN sent' = <<>>
             ELSE sent' = <<Envelope(handling'.conn, 0, "error")>>]_vars

\* C21 witness: an unparseable frame arrived on a registered connection while
\* another handler was suspended, and nothing was sent.
C21_Witness ==
    /\ handling.kind = "malformed"
    /\ Truthy(userId[handling.conn])
    /\ MapGet(clients, userId[handling.conn]) = handling.conn
    /\ tasks # EmptyBag
    /\ sent = <<>>

\* C22: a 'message' envelope from an authenticated user that names an existing
\* conversation and carries non-empty content or at least one attachment is
\* not answered with an error: its handler goes on to storage.createMessage.
C22_ContentOrAttachments ==
    (/\ handling.pc = "receive" /\ handling.kind = "message"
     /\ Truthy(handling.uid)
     /\ ConversationExists(handling.cid)
     /\ (handling.text # "" \/ handling.att)) =>
       /\ sent = <<>>
       /\ BagIn([handling EXCEPT !.pc = "createMessage"], tasks)

\* C25: whenever no authenticate or close handler is in progress, the Store
\* has a user online exactly when the registry maps that user to an open
\* connection.
\* (Taken over the states in which every registry entry is the current
\* identity of its connection, so that entries left behind by a connection
\* that changed its identity play no part.)
C25_PresenceMatchesRegistry ==
    (/\ \A t \in BagToSet(tasks) : t.kind \notin {"authenticate", "close"}
     /\ \A p \in clients : userId[p[2]] = p[1]) =>
       \A u \in Users : isOnline[u] <=> Reachable(u)

\* the close handler of connection c has run to completion
CloseCompleted(c) ==
    wsState[c] = "CLOSED" /\ \A t \in BagToSet(tasks) : ~(t.conn = c /\ t.kind = "close")

\* C28: once the close handler of a connection has completed the registry has
\* no entry whose value is that connection, and no connection is ever
\* registered under more than one user-id.
C28_NoEntryOutlivesConnection ==
    /\ \A p \in clients : ~CloseCompleted(p[2])
    /\ \A p \in clients, q \in clients : p[2] = q[2] => p = q

\* C29: every message record of a conversation was posted by a member of it,
\* and a 'message' envelope is fanned out only when its sender is a member of
\* the conversation.
C29_OnlyMembersPost ==
    /\ \A i \in DOMAIN messages :
          ConversationExists(messages[i].conversationId) =>
             messages[i].senderId \in Members(messages[i].conversationId)
    /\ (handling.kind = "message" /\ handling.pc = "fanOut" /\ sent # <<>>) =>
          handling.uid \in Members(handling.cid)

\* the step is the reactions update of an add_reaction or remove_reaction
ReactionWritten ==
    /\ handling'.kind \in {"add_reaction", "remove_reaction"}
    /\ handling'.pc = "updateReactions"
    /\ MessageExists(handling'.mid)

\* C30: reaction updates are not lost: the write of an add_reaction or
\* remove_reaction changes the message's list by its own reaction only, so
\* that every reaction of another user that was in the list stays in it and
\* none that was removed comes back.
C30_NoLostReactionUpdate ==
    [][ReactionWritten =>
          \A u \in Users, e \in Emojis :
             (u # handling'.uid \/ e # handling'.text) =>
                (HasReaction(messages'[handling'.mid].reactions, u, e)
                   <=> HasReaction(messages[handling'.mid].reactions, u, e))]_vars

\* ==================================================================== client
MAX_RECONNECT_ATTEMPTS == 5

MaxActions == 3      \* sendMessage/editMessage/addReaction/removeReaction calls in one run
MaxOrphans == 1      \* replaced sockets that may still be waiting for their close event
MaxWire == 3         \* envelopes on one socket after which connectSocket is not called again
MaxTypingWire == 1   \* envelopes on one socket after which no typing notice is sent on it

ActionTypes == {"message", "edit_message", "add_reaction", "remove_reaction"}

\* JSON.stringify({type: 'authenticate', message: userId})
AuthEnvelope(u) == [type |-> "authenticate", id |-> 0, user |-> u]

\* the payload of the n-th submitted action
ActionEnvelope(type, n) == [type |-> type, id |-> n, user |-> 0]

\* reconnectSocket(), mutated: the attempt budget is not checked
ReconnectSocketUnbounded(timer, uid, attempts) ==
    IF timer \/ uid = 0 THEN timer ELSE TRUE

\* reconnectSocket(): the value of socketReconnectTimer (pending or not) it leaves
ReconnectSocket(timer, uid, attempts) ==
    IF timer \/ uid = 0 THEN timer
    ELSE IF attempts < MAX_RECONNECT_ATTEMPTS THEN TRUE ELSE timer

\* processMessageQueue's while loop, mutated: takes the newest entry first
RECURSIVE DrainLifo(_, _, _)
DrainLifo(q, w, failAt) ==
    IF q = <<>> THEN [queue |-> q, wire |-> w]
    ELSE IF failAt = 1 THEN [queue |-> q, wire |-> w]
    ELSE DrainLifo(SubSeq(q, 1, Len(q) - 1), Append(w, q[Len(q)]),
                   IF failAt = 0 THEN 0 ELSE failAt - 1)

\* processMessageQueue's while loop: shift, send, and on a throw unshift and break;
\* the failAt-th send throws (0: none does)
RECURSIVE Drain(_, _, _)
Drain(q, w, failAt) ==
    IF q = <<>> THEN [queue |-> q, wire |-> w]
    ELSE LET queuedMessage == Head(q)
             rest == Tail(q)
         IN IF failAt = 1 THEN [queue |-> <<queuedMessage>> \o rest, wire |-> w]
            ELSE Drain(rest, Append(w, queuedMessage), IF failAt = 0 THEN 0 ELSE failAt - 1)

\* processMessageQueue(), mutated: the catch block has no break, so the entries
\* behind the one whose send threw are sent as well
ProcessMessageQueueGoesOn(st, q, w, failAt) ==
    IF st = "OPEN" /\ Len(q) > 0
    THEN LET r == Drain(q, w, failAt)
         IN IF failAt # 0 /\ Len(r.queue) > 1
            THEN [queue |-> <<Head(r.queue)>>, wire |-> r.wire \o Tail(r.queue)]
            ELSE r
    ELSE [queue |-> q, wire |-> w]

\* processMessageQueue() called with the socket in state st
ProcessMessageQueue(st, q, w, failAt) ==
    IF st = "OPEN" /\ Len(q) > 0 THEN Drain(q, w, failAt) ELSE [queue |-> q, wire |-> w]

\* socket.close() on a socket that has not fired its close event yet leaves a
\* socket whose onclose will still run
PendingClose(st) == st \in {"CONNECTING", "OPEN", "CLOSING"}

\* sendAuthMessage(userId), mutated: nothing is transmitted
SendAuthMessageNothing(st, u, w) == w

\* sendAuthMessage(userId) with the socket in state st: the wire it leaves
SendAuthMessage(st, u, w) == IF st = "OPEN" THEN Append(w, AuthEnvelope(u)) ELSE w

\* connectSocket(userId), everything but the bookkeeping of its caller
ConnectSocketBody(u, failAt) ==
    /\ currentUserId' = u
    /\ IF socket = "OPEN"
       THEN LET r == ProcessMessageQueue("OPEN", messageQueue,
                                         SendAuthMessage("OPEN", u, wire), failAt)
            IN /\ Len(wire) < MaxWire
               /\ failAt <= Len(messageQueue)
               /\ wire' = r.wire
               /\ messageQueue' = r.queue
               /\ UNCHANGED <<socket, orphans, onopenUserId>>
       ELSE /\ failAt = 0
            /\ IF PendingClose(socket)
               THEN orphans < MaxOrphans /\ orphans' = orphans + 1
               ELSE UNCHANGED orphans
            /\ socket' = "CONNECTING"
            /\ onopenUserId' = u
            /\ wire' = <<>>
            /\ UNCHANGED messageQueue

\* connectSocket(userId) called by the application
ConnectSocket(u, failAt) ==
    /\ ConnectSocketBody(u, failAt)
    /\ clientOp' = Op("connectSocket", failAt # 0)
    /\ UNCHANGED <<socketReconnectTimer, reconnectAttempts, submitted>>

\* the setTimeout callback of reconnectSocket
ReconnectTimer(failAt) ==
    /\ socketReconnectTimer
    /\ ConnectSocketBody(currentUserId, failAt)
    /\ reconnectAttempts' = reconnectAttempts + 1
    /\ socketReconnectTimer' = FALSE
    /\ clientOp' = Op("timer", failAt # 0)
    /\ UNCHANGED submitted

\* socket.onopen; the socket that opens is the module-level one (a socket that
\* was replaced was closed before it opened)
OnOpen(failAt) ==
    /\ socket = "CONNECTING"
    /\ failAt <= Len(messageQueue)
    /\ socket' = "OPEN"
    /\ reconnectAttempts' = 0
    /\ LET r == ProcessMessageQueue("OPEN", messageQueue,
                                    SendAuthMessage("OPEN", onopenUserId, wire), failAt)
       IN wire' = r.wire /\ messageQueue' = r.queue
    /\ socketReconnectTimer' = FALSE
    /\ clientOp' = Op("onopen", failAt # 0)
    /\ UNCHANGED <<orphans, currentUserId, onopenUserId, submitted>>

\* the transport starts closing the module-level socket (no callback runs)
Closing ==
    /\ socket = "OPEN"
    /\ socket' = "CLOSING"
    /\ clientOp' = Op("closing", FALSE)
    /\ UNCHANGED <<orphans, socketReconnectTimer, currentUserId, onopenUserId, reconnectAttempts,
                   messageQueue, wire, submitted>>

\* socket.onclose of the module-level socket (a failed attempt or a lost connection)
OnClose ==
    /\ PendingClose(socket)
    /\ socket' = "CLOSED"
    /\ socketReconnectTimer' =
          ReconnectSocket(socketReconnectTimer, currentUserId, reconnectAttempts)
    /\ clientOp' = Op("onclose", FALSE)
    /\ UNCHANGED <<orphans, currentUserId, onopenUserId, reconnectAttempts, messageQueue, wire,
                   submitted>>

\* socket.onclose of a socket that connectSocket or disconnectSocket closed
OnCloseReplaced ==
    /\ orphans > 0
    /\ orphans' = orphans - 1
    /\ socketReconnectTimer' =
          ReconnectSocket(socketReconnectTimer, currentUserId, reconnectAttempts)
    /\ clientOp' = Op("onclose_replaced", FALSE)
    /\ UNCHANGED <<socket, currentUserId, onopenUserId, reconnectAttempts, messageQueue, wire,
                   submitted>>

\* disconnectSocket()
DisconnectSocket ==
    /\ IF PendingClose(socket)
       THEN orphans < MaxOrphans /\ orphans' = orphans + 1
       ELSE UNCHANGED orphans
    /\ socket' = "null"
    /\ wire' = <<>>
    /\ socketReconnectTimer' = FALSE
    /\ clientOp' = Op("disconnectSocket", FALSE)
    /\ UNCHANGED <<currentUserId, onopenUserId, reconnectAttempts, messageQueue, submitted>>

\* the readyState test that guards reconnectSocket() in the catch block
CatchReconnects(type, st) ==
    IF type \in {"message", "edit_message"} THEN st = "CLOSED" ELSE st # "CONNECTING"

\* sendMessage / editMessage / addReaction / removeReaction, mutated:
\* the payload is queued even when socket.send accepted it
SubmitOutcomeRequeue(type, n, throws) ==
    IF socket = "OPEN" /\ ~throws
    THEN [wire |-> Append(wire, ActionEnvelope(type, n)),
          queue |-> Append(messageQueue, ActionEnvelope(type, n)), reconnect |-> FALSE]
    ELSE [wire |-> wire, queue |-> Append(messageQueue, ActionEnvelope(type, n)),
          reconnect |-> IF socket = "OPEN" THEN CatchReconnects(type, socket)
                        ELSE socket \in {"null", "CLOSED"}]

\* sendMessage / editMessage / addReaction / removeReaction: what the call does
\* to the wire and the queue, and whether it calls reconnectSocket()
SubmitOutcome(type, n, throws) ==
    IF socket = "OPEN"
    THEN IF ~throws
         THEN [wire |-> Append(wire, ActionEnvelope(type, n)), queue |-> messageQueue,
               reconnect |-> FALSE]
         ELSE [wire |-> wire, queue |-> Append(messageQueue, ActionEnvelope(type, n)),
               reconnect |-> CatchReconnects(type, socket)]
    ELSE [wire |-> wire, queue |-> Append(messageQueue, ActionEnvelope(type, n)),
          reconnect |-> socket \in {"null", "CLOSED"}]

\* one call of sendMessage, editMessage, addReaction or removeReaction
Submit(type, throws) ==
    /\ submitted < MaxActions
    /\ throws => socket = "OPEN"
    /\ submitted' = submitted + 1
    /\ LET r == SubmitOutcome(type, submitted + 1, throws)
       IN /\ wire' = r.wire
          /\ messageQueue' = r.queue
          /\ socketReconnectTimer' =
                IF r.reconnect
                THEN ReconnectSocket(socketReconnectTimer, currentUserId, reconnectAttempts)
                ELSE socketReconnectTimer
    /\ clientOp' = Op("submit", throws)
    /\ UNCHANGED <<socket, orphans, currentUserId, onopenUserId, reconnectAttempts>>

\* JSON.stringify({type: 'typing', conversationId})
TypingEnvelope == [type |-> "typing", id |-> 0, user |-> 0]

\* sendTypingNotification, mutated: a notice that cannot be sent is queued
TypingOutcomeQueued(st, w, q) ==
    IF st = "OPEN" THEN [wire |-> Append(w, TypingEnvelope), queue |-> q]
    ELSE [wire |-> w, queue |-> Append(q, TypingEnvelope)]

\* sendTypingNotification with the socket in state st: what the call does to
\* the wire and the queue
TypingOutcome(st, w, q) ==
    IF st = "OPEN" THEN [wire |-> Append(w, TypingEnvelope), queue |-> q]
    ELSE [wire |-> w, queue |-> q]

\* one call of sendTypingNotification
SendTypingNotification ==
    /\ socket = "OPEN" => Len(wire) <= MaxTypingWire
    /\ LET r == TypingOutcome(socket, wire, messageQueue)
       IN wire' = r.wire /\ messageQueue' = r.queue
    /\ clientOp' = Op("sendTypingNotification", FALSE)
    /\ UNCHANGED <<socket, orphans, socketReconnectTimer, currentUserId, onopenUserId,
                   reconnectAttempts, submitted>>

FailPoints == 0..MaxActions

ClientNext ==
    \/ \E u \in Users, f \in FailPoints : ConnectSocket(u, f)
    \/ \E f \in FailPoints : ReconnectTimer(f)
    \/ \E f \in FailPoints : OnOpen(f)
    \/ Closing
    \/ OnClose
    \/ OnCloseReplaced
    \/ DisconnectSocket
    \/ \E type \in ActionTypes, throws \in BOOLEAN : Submit(type, throws)

ClientSpec == Init /\ [][ClientNext /\ UNCHANGED gvars]_vars

\* the fairness the event loop gives: a pending timeout fires, a connection
\* attempt or a closing handshake ends, a closed socket's close event is
\* dispatched.  An open socket may stay open for ever and the application
\* need not call anything.
ClientFairSpec ==
    /\ ClientSpec
    /\ WF_vars(\E f \in FailPoints : ReconnectTimer(f) /\ UNCHANGED gvars)
    /\ WF_vars(socket # "OPEN" /\ ((\E f \in FailPoints : OnOpen(f)) \/ OnClose)
                 /\ UNCHANGED gvars)
    /\ WF_vars(OnCloseReplaced /\ UNCHANGED gvars)

\* the client with the application also calling sendTypingNotification
ClientTypingNext ==
    \/ ClientNext
    \/ SendTypingNotification

ClientTypingSpec == Init /\ [][ClientTypingNext /\ UNCHANGED gvars]_vars

\* ============================================================= client claims
\* the actions among the envelopes of a sequence (the authenticate envelopes left out)
Actions(w) == SelectSeq(w, LAMBDA e : e.type # "authenticate")

\* the step is socket.onopen of the module-level socket
OpensNow == socket = "CONNECTING" /\ socket' = "OPEN"

\* C5 as stated: when the socket opens, every queued action is transmitted, in
\* queue order, and the queue is left empty.
C5_ReplayAllInOrder ==
    [][OpensNow => (Actions(wire') = messageQueue /\ messageQueue' = <<>>)]_vars

\* C5 amended: when the socket opens, the actions transmitted followed by the
\* actions left in the queue are the queue as it was (nothing reordered,
\* duplicated or lost), and unless a send threw the queue is left empty.
C5_FifoReplay ==
    [][OpensNow =>
          /\ Actions(wire') \o messageQueue' = messageQueue
          /\ ~clientOp'.threw => messageQueue' = <<>>]_vars

\* C5 witness: a socket has just opened and replayed three queued actions of
\* different types in submission order.
C5_Witness ==
    /\ clientOp.name = "onopen"
    /\ messageQueue = <<>>
    /\ Len(Actions(wire)) = 3
    /\ \A i \in 1..3 : Actions(wire)[i].id = i
    /\ Cardinality({Actions(wire)[i].type : i \in 1..3}) = 3

\* number of occurrences of action n in a sequence of envelopes
Occurrences(w, n) == Cardinality({i \in DOMAIN w : w[i].id = n})

\* C8: when sendMessage, editMessage, addReaction or removeReaction returns,
\* its payload was accepted by socket.send exactly once or is in the outbound
\* queue exactly once, and not both.
C8_NoSilentLoss ==
    clientOp.name = "submit" =>
       Occurrences(wire, submitted) + Occurrences(messageQueue, submitted) = 1

\* C8 witness: a call whose socket.send threw on an open socket left its
\* payload in the queue, behind an entry that was already there.
C8_Witness ==
    /\ clientOp.name = "submit" /\ clientOp.threw
    /\ socket = "OPEN"
    /\ Len(messageQueue) = 2
    /\ messageQueue[2].id = submitted

\* C9: no action stays in the outbound queue for ever while the socket stays open.
C9_QueuedEventuallyDelivered ==
    \A n \in 1..MaxActions :
        []<>(~(socket = "OPEN" /\ Occurrences(messageQueue, n) = 1))

\* C10: the attempt counter stays within 0..MAX_RECONNECT_ATTEMPTS; it drops
\* only when a socket opens; the reconnect timer creates a socket only while
\* the counter is below the maximum and counts the attempt; with the budget
\* used up no timer is pending, so no socket is created except by a call of
\* connectSocket.
C10_BoundedReconnection ==
    [][/\ reconnectAttempts' \in 0..MAX_RECONNECT_ATTEMPTS
       /\ reconnectAttempts' = MAX_RECONNECT_ATTEMPTS => ~socketReconnectTimer'
       /\ reconnectAttempts' < reconnectAttempts => (OpensNow /\ reconnectAttempts' = 0)
       /\ clientOp'.name = "timer" =>
             (reconnectAttempts < MAX_RECONNECT_ATTEMPTS
                /\ reconnectAttempts' = reconnectAttempts + 1)
       /\ (socket' = "CONNECTING" /\ (socket # "CONNECTING" \/ orphans' > orphans)) =>
             clientOp'.name \in {"timer", "connectSocket"}
       /\ (socket' = "CONNECTING" /\ reconnectAttempts = MAX_RECONNECT_ATTEMPTS) =>
             clientOp'.name # "timer"]_vars

\* C10 witness: the fifth scheduled attempt has failed; the client has given up.
C10_Witness ==
    /\ reconnectAttempts = MAX_RECONNECT_ATTEMPTS
    /\ socket = "CLOSED"
    /\ clientOp.name = "onclose"
    /\ currentUserId # 0
    /\ ~socketReconnectTimer

\* C11: the first envelope transmitted on a socket is 'authenticate'; the step
\* in which a socket opens transmits it first, carrying the last user-id given
\* to connectSocket, and every replayed action comes after it.
C11_ReauthenticationFirst ==
    [][/\ wire' # <<>> => wire'[1].type = "authenticate"
       /\ OpensNow =>
             /\ wire = <<>>
             /\ wire' # <<>>
             /\ wire'[1] = AuthEnvelope(currentUserId)
             /\ \A i \in 2..Len(wire') : wire'[i].type # "authenticate"]_vars

\* C11 witness: a socket created for user 2 has just opened, authenticated as 2
\* and then replayed two queued actions.
C11_Witness ==
    /\ clientOp.name = "onopen"
    /\ currentUserId = 2
    /\ Len(wire) = 3
    /\ wire[1] = AuthEnvelope(2)
    /\ wire[2].type \in ActionTypes /\ wire[3].type \in ActionTypes

\* C19: the outbound queue never holds a 'typing' entry, and a call of
\* sendTypingNotification made while the socket is not open leaves the wire,
\* the queue and the reconnect timer as they were.
C19_TypingNeverQueued ==
    [][/\ \A i \in DOMAIN messageQueue' : messageQueue'[i].type # "typing"
       /\ (clientOp'.name = "sendTypingNotification" /\ socket # "OPEN") =>
             /\ wire' = wire
             /\ messageQueue' = messageQueue
             /\ socketReconnectTimer' = socketReconnectTimer
             /\ socket' = socket /\ orphans' = orphans]_vars

\* C19 witness: sendTypingNotification was called with no socket, a user
\* known, attempts left and no timer pending (the state in which sendMessage
\* would queue and schedule a reconnection); nothing was queued or scheduled.
C19_Witness ==
    /\ clientOp.name = "sendTypingNotification"
    /\ socket = "null"
    /\ currentUserId # 0
    /\ reconnectAttempts < MAX_RECONNECT_ATTEMPTS
    /\ ~socketReconnectTimer
    /\ Len(messageQueue) = 1 /\ messageQueue[1].type = "message"

\* the step ran processMessageQueue and one of its sends threw
DrainFails == clientOp'.threw /\ clientOp'.name \in {"onopen", "connectSocket", "timer"}

\* C23: when a send of the drain loop throws, the entry it was sending is back
\* at the head of the queue with every later entry behind it in the old order,
\* exactly the entries before it were transmitted, and no later entry was.
C23_DrainStopsAtFirstFailure ==
    [][DrainFails =>
          \E k \in 1..Len(messageQueue) :
             /\ messageQueue' = SubSeq(messageQueue, k, Len(messageQueue))
             /\ Actions(wire') = Actions(wire) \o SubSeq(messageQueue, 1, k - 1)]_vars

\* C23 witness: a drain of three queued actions sent the first, failed on the
\* second and left the second and third in the queue.
C23_Witness ==
    /\ clientOp.name = "onopen" /\ clientOp.threw
    /\ Len(messageQueue) = 2
    /\ messageQueue[1].id = 2 /\ messageQueue[2].id = 3
    /\ Len(Actions(wire)) = 1 /\ Actions(wire)[1].id = 1

\* client sockets that are CONNECTING or OPEN (a socket that was replaced or
\* disconnected had close() called on it and is CLOSING or CLOSED)
LiveSockets == IF socket \in {"CONNECTING", "OPEN"} THEN 1 ELSE 0

\* C24: at most one client socket is CONNECTING or OPEN, and the close event
\* of a socket that was replaced schedules no reconnection.
C24_SingleConnectionAttempt ==
    [][/\ LiveSockets' <= 1
       /\ clientOp'.name = "onclose_replaced" =>
             socketReconnectTimer' = socketReconnectTimer]_vars

\* C26: an action submitted while earlier actions wait in the queue is not
\* transmitted before them: no transmitted action is younger than an action
\* that is still queued (entries are queued at submission or never).
C26_SubmissionOrderKept ==
    \A i \in DOMAIN wire, j \in DOMAIN messageQueue :
       wire[i].type # "authenticate" => wire[i].id < messageQueue[j].id

\* C27: once disconnectSocket has returned (no socket, no timer), every step
\* that is not a call by the application (the close event of the closed
\* socket included) leaves the client without socket and without timer.
C27_DisconnectIsFinal ==
    [][(/\ socket = "null" /\ ~socketReconnectTimer
        /\ clientOp'.name \notin {"connectSocket", "submit"}) =>
          (socket' = "null" /\ ~socketReconnectTimer')]_vars

====
